---- MODULE Spec2Model ----
(***************************************************************************)
(* A model of the AuDHD RAG agent glue code:                               *)
(*   main.py                    run_cli, the interactive loop              *)
(*   retrieve_knowledge_tool.py query_knowledge_base, the retrieval tool   *)
(*   ingest.py                  ingest_documents, the local (FAISS) ingest *)
(*   ingest_cloud.py            ingest_documents_to_pinecone, the remote   *)
(*                              (Pinecone) ingest                          *)
(* The third-party libraries (ADK Runner, LangChain, OpenAI, Pinecone,     *)
(* FAISS) are the environment: each call into them either returns or       *)
(* raises, chosen nondeterministically, behind the interface the code      *)
(* uses.  Strings the code inspects (the typed line) are sequences of      *)
(* one-character strings, so that lower() and strip() are computed.        *)
(***************************************************************************)
EXTENDS Integers, Sequences, FiniteSets, TLC

VARIABLES
    cli_pc,       \* run_cli: "start", "prompt", "exited", "initfailed", "crashed"
    user_input,   \* run_cli: the line last returned by input()
    cli_out,      \* run_cli: what the last step printed
    queries,      \* run_cli: the queries handed to runner.run so far
    run_outcome,  \* run_cli: what the last runner.run call did
    env,          \* the process environment: variable name -> value
    q_pc,         \* query_knowledge_base: the statement it is at
    user_query,   \* query_knowledge_base: its argument
    q_net,        \* query_knowledge_base: the library calls made so far
    q_docs,       \* query_knowledge_base: retrieved_docs
    q_result,     \* query_knowledge_base: what the call ended with
    files,        \* the knowledge file at each script's path
    indexes,      \* Pinecone: the indexes of the project, as list_indexes() gives them
    records,      \* Pinecone: the records of the index PINECONE_INDEX_NAME names
    faiss_index,  \* the directory FAISS_INDEX_FILE on disk
    pc,           \* ingestion run -> the statement it is at
    variant,      \* ingestion run -> "local" (ingest.py), "remote" (ingest_cloud.py)
    existing_indexes, \* ingestion run -> its local existing_indexes
    texts,        \* ingestion run -> len(texts), the chunks it split the source into
    vector_store, \* ingestion run -> the records of its in-memory FAISS store
    net,          \* ingestion run -> the library calls it made
    out,          \* ingestion run -> what it printed
    ret           \* ingestion run -> what it returned: <<>> is None

cliVars == <<cli_pc, user_input, cli_out, queries, run_outcome>>

qVars == <<q_pc, user_query, q_net, q_docs, q_result>>

runVars == <<pc, variant, existing_indexes, texts, vector_store, net, out, ret>>

storeVars == <<indexes, records, faiss_index>>

ingVars == <<files, storeVars, runVars>>

vars == <<cli_pc, user_input, cli_out, queries, run_outcome, env,
          q_pc, user_query, q_net, q_docs, q_result,
          files, indexes, records, faiss_index,
          pc, variant, existing_indexes, texts, vector_store, net, out, ret>>

\* The state of each program before it is started
CliIdle ==
    /\ cli_pc = "start"
    /\ user_input = <<>>
    /\ cli_out = <<>>
    /\ queries = <<>>
    /\ run_outcome = [kind |-> "not called"]

QIdle ==
    /\ q_pc = "idle"
    /\ user_query = <<>>
    /\ q_net = <<>>
    /\ q_docs = <<>>
    /\ q_result = [kind |-> "none"]

(***************************************************************************)
(* Bounds                                                                  *)
(***************************************************************************)
MaxBlankLen == 2     \* longest whitespace-only line typed
MaxCalls == 2        \* runner.run calls followed in one session
MaxRuns == 3         \* ingestion runs followed
MaxChunks == 2       \* most chunks the knowledge file splits into

Runs == 1..MaxRuns

\* ingest.py:8, ingest_cloud.py:10
KNOWLEDGE_FILE == "knowledge.txt"

KNOWLEDGE_FILE_PATH == "auhdhd_rag_agent/knowledge.txt"

\* ingest_cloud.py:12
OPENAI_EMBEDDING_DIMENSION == 1536

\* The index name PINECONE_INDEX_NAME holds when it is set
IndexName == "kb"

\* An index of the project that ingestion never touches
OtherIndex == [name |-> "other", dimension |-> 768, metric |-> "euclidean"]

IngestIdle ==
    /\ files = [p \in {KNOWLEDGE_FILE, KNOWLEDGE_FILE_PATH} |-> [kind |-> "ok", chunks |-> 1]]
    /\ indexes = <<OtherIndex>>
    /\ records = {}
    /\ faiss_index = [exists |-> FALSE, records |-> {}]
    /\ pc = [r \in Runs |-> "idle"]
    /\ variant = [r \in Runs |-> "none"]
    /\ existing_indexes = [r \in Runs |-> <<>>]
    /\ texts = [r \in Runs |-> 0]
    /\ vector_store = [r \in Runs |-> {}]
    /\ net = [r \in Runs |-> <<>>]
    /\ out = [r \in Runs |-> <<>>]
    /\ ret = [r \in Runs |-> <<>>]

(***************************************************************************)
(* str.lower() and str.strip() on the characters a line is made of         *)
(***************************************************************************)
Letters == {"e", "E", "x", "X", "i", "I", "t", "T"}

Whitespace == {" ", "\t"}

LowerChar(c) ==
    CASE c = "E" -> "e"
      [] c = "X" -> "x"
      [] c = "I" -> "i"
      [] c = "T" -> "t"
      [] c = "H" -> "h"
      [] OTHER -> c

lower(s) == [i \in 1..Len(s) |-> LowerChar(s[i])]

RECURSIVE lstrip(_)
lstrip(s) == IF s # <<>> /\ Head(s) \in Whitespace THEN lstrip(Tail(s)) ELSE s

RECURSIVE rstrip(_)
rstrip(s) ==
    IF s # <<>> /\ s[Len(s)] \in Whitespace
    THEN rstrip(SubSeq(s, 1, Len(s) - 1))
    ELSE s

strip(s) == rstrip(lstrip(s))

exit == <<"e", "x", "i", "t">>

(***************************************************************************)
(* The lines input() can return: `exit` in every letter case, blank lines, *)
(* near misses of `exit`, and ordinary queries.                            *)
(***************************************************************************)
ExitLines == {s \in [1..4 -> Letters] : lower(s) = exit}

BlankLines == UNION {[1..n -> Whitespace] : n \in 0..MaxBlankLen}

QueryLines ==
    { <<"H", "i">>,
      <<"e", "x", "i">>,
      <<" ", "e", "x", "i", "t">>,
      <<"E", "X", "I", "T", " ">>,
      <<"e", "x", "i", "t", "s">>,
      <<" ", "h", "i", "\t">> }

Lines == ExitLines \cup BlankLines \cup QueryLines

(***************************************************************************)
(* What runner.run(query=...) can do: return a dict with a 'response' key, *)
(* return a dict without it, return something that has no .get (None), or  *)
(* raise an Exception.                                                     *)
(***************************************************************************)
Answers == {"answer A", "answer B"}

RunOutcomes ==
    [kind : {"dict"}, response : Answers]
        \cup {[kind |-> "dict_no_response"], [kind |-> "none"], [kind |-> "raise"]}

\* Mutant: .get('response') without the default
AgentResponse_NoDefault(rd) ==
    IF rd.kind = "dict" THEN rd.response ELSE "None"

\* main.py:53  response_data.get('response', 'No response content found.')
AgentResponse(rd) ==
    IF rd.kind = "dict" THEN rd.response ELSE "No response content found."

\* What the try block of one turn prints (main.py:43-57).
TurnOutput(rd) ==
    IF rd.kind \in {"dict", "dict_no_response"}
    THEN << <<"Sending query to agent...">>, <<"Agent: ", AgentResponse(rd)>> >>
    ELSE << <<"Sending query to agent...">>,
            <<"An error occurred while processing your query: ", rd.kind>> >>

\* Mutant: the comparison without lower()
IsExit_CaseSensitive(s) == s = exit

\* main.py:36
IsExit(s) == lower(s) = exit

\* Mutant: the test without strip()
IsBlank_NoStrip(s) == s = <<>>

\* main.py:40
IsBlank(s) == strip(s) = <<>>

(***************************************************************************)
(* The environment variables both Pinecone scripts read (os.getenv): a     *)
(* variable is unset (None), set to the empty string, or set to a value.   *)
(* `not x` is true of None and of the empty string.                        *)
(***************************************************************************)
EnvNames ==
    {"OPENAI_API_KEY", "PINECONE_API_KEY", "PINECONE_ENVIRONMENT", "PINECONE_INDEX_NAME"}

EnvValues == {"None", "", "set"}

Envs == [EnvNames -> EnvValues]

Falsy(x) == x \in {"None", ""}

\* Exceptions a library call can raise
Excs == {"ConnectionError", "AuthenticationError"}

(***************************************************************************)
(* query_knowledge_base (retrieve_knowledge_tool.py)                       *)
(* Text is a sequence of pieces (the parts of an f-string or of a join);   *)
(* the empty string is the empty sequence.                                 *)
(***************************************************************************)
TOP_K_RESULTS == 3

EmptyStr == <<>>

QueryTexts == {"What is a RAG model?", "What color is the sky?"}

Contents == {"The sky is blue.", "RAG retrieves, then generates."}

\* What similarity_search(query, k=TOP_K_RESULTS) can return: up to k documents,
\* each given by its page_content.
DocLists == UNION {[1..n -> Contents] : n \in 0..TOP_K_RESULTS}

\* retrieve_knowledge_tool.py:90  "\n\n---\n\n".join(...)
RECURSIVE join(_, _)
join(sep, parts) ==
    IF parts = <<>> THEN EmptyStr
    ELSE IF Len(parts) = 1 THEN <<parts[1]>>
    ELSE <<parts[1], sep>> \o join(sep, Tail(parts))

\* retrieve_knowledge_tool.py:37
AllSet(e) ==
    /\ ~Falsy(e["OPENAI_API_KEY"])
    /\ ~Falsy(e["PINECONE_API_KEY"])
    /\ ~Falsy(e["PINECONE_ENVIRONMENT"])
    /\ ~Falsy(e["PINECONE_INDEX_NAME"])

\* retrieve_knowledge_tool.py:38-42  missing_vars, in the order appended
missing_vars(e) ==
    (IF Falsy(e["OPENAI_API_KEY"]) THEN <<"OPENAI_API_KEY">> ELSE <<>>)
    \o (IF Falsy(e["PINECONE_API_KEY"]) THEN <<"PINECONE_API_KEY">> ELSE <<>>)
    \o (IF Falsy(e["PINECONE_ENVIRONMENT"]) THEN <<"PINECONE_ENVIRONMENT">> ELSE <<>>)
    \o (IF Falsy(e["PINECONE_INDEX_NAME"]) THEN <<"PINECONE_INDEX_NAME">> ELSE <<>>)

Returned(d) == [kind |-> "return", value |-> d]

Raised(e) == [kind |-> "raise", exc |-> e]

ErrorDict(msg) == [status |-> "error", message |-> msg, retrieved_context |-> EmptyStr]

\* retrieve_knowledge_tool.py:43-45
OnMissingConfig(e) ==
    Returned(ErrorDict(<<"Error: Missing required environment variables: ">>
                           \o join(", ", missing_vars(e))))

\* retrieve_knowledge_tool.py:53-56
OnEmbeddingsError(e) ==
    Returned(ErrorDict(<<"Error initializing OpenAIEmbeddings: ", e>>))

\* retrieve_knowledge_tool.py:67-72
OnConnectError(e) ==
    Returned(ErrorDict(<<"Error connecting to Pinecone index: ", e>>))

\* Mutant: the similarity search is not wrapped in try/except
OnSearchError_Unhandled(e) == Raised(e)

\* retrieve_knowledge_tool.py:80-83
OnSearchError(e) ==
    Returned(ErrorDict(<<"Error during similarity search with Pinecone: ", e>>))

\* Mutant: an empty result list is reported as an error
FormatResult_EmptyIsError(docs) ==
    IF docs = <<>>
    THEN Returned(ErrorDict(<<"No relevant information found in the knowledge base.">>))
    ELSE Returned([status |-> "success",
                   retrieved_context |-> join("\n\n---\n\n", docs)])

\* retrieve_knowledge_tool.py:85-93
FormatResult(docs) ==
    IF docs = <<>>
    THEN Returned([status |-> "success",
                   message |-> <<"No relevant information found in the knowledge base.">>,
                   retrieved_context |-> EmptyStr])
    ELSE Returned([status |-> "success",
                   retrieved_context |-> join("\n\n---\n\n", docs)])

QInit ==
    /\ CliIdle
    /\ env \in Envs
    /\ q_pc = "validate"
    /\ user_query \in {<<q>> : q \in QueryTexts}
    /\ q_net = <<>>
    /\ q_docs = <<>>
    /\ q_result = [kind |-> "none"]
    /\ IngestIdle

QEnd(res) ==
    /\ q_result' = res
    /\ q_pc' = IF res.kind = "raise" THEN "raised" ELSE "returned"

\* retrieve_knowledge_tool.py:29-45
QValidate ==
    /\ q_pc = "validate"
    /\ IF AllSet(env)
       THEN q_pc' = "embeddings" /\ UNCHANGED q_result
       ELSE QEnd(OnMissingConfig(env))
    /\ UNCHANGED <<cliVars, ingVars, env, user_query, q_net, q_docs>>

\* retrieve_knowledge_tool.py:47-56  OpenAIEmbeddings(...) returns or raises
QInitEmbeddings ==
    /\ q_pc = "embeddings"
    /\ q_net' = Append(q_net, "OpenAIEmbeddings")
    /\ \/ q_pc' = "connect" /\ UNCHANGED q_result
       \/ \E e \in Excs : QEnd(OnEmbeddingsError(e))
    /\ UNCHANGED <<cliVars, ingVars, env, user_query, q_docs>>

\* retrieve_knowledge_tool.py:58-72  from_existing_index(...) returns or raises
QConnect ==
    /\ q_pc = "connect"
    /\ q_net' = Append(q_net, "from_existing_index")
    /\ \/ q_pc' = "search" /\ UNCHANGED q_result
       \/ \E e \in Excs : QEnd(OnConnectError(e))
    /\ UNCHANGED <<cliVars, ingVars, env, user_query, q_docs>>

\* retrieve_knowledge_tool.py:74-83  similarity_search(...) returns or raises
QSearch ==
    /\ q_pc = "search"
    /\ q_net' = Append(q_net, "similarity_search")
    /\ \/ \E docs \in DocLists :
            /\ q_docs' = docs
            /\ q_pc' = "format"
            /\ UNCHANGED q_result
       \/ \E e \in Excs : QEnd(OnSearchError(e)) /\ UNCHANGED q_docs
    /\ UNCHANGED <<cliVars, ingVars, env, user_query>>

\* retrieve_knowledge_tool.py:85-93
QFormat ==
    /\ q_pc = "format"
    /\ QEnd(FormatResult(q_docs))
    /\ UNCHANGED <<cliVars, ingVars, env, user_query, q_net, q_docs>>

QNext ==
    \/ QValidate
    \/ QInitEmbeddings
    \/ QConnect
    \/ QSearch
    \/ QFormat

SpecQuery == QInit /\ [][QNext]_vars

(***************************************************************************)
(* run_cli                                                                 *)
(***************************************************************************)
CliInit ==
    /\ CliIdle
    /\ env = [v \in EnvNames |-> "set"]
    /\ QIdle
    /\ IngestIdle

\* main.py:16-31  Runner(...) returns or raises
InitRunner ==
    /\ cli_pc = "start"
    /\ \/ /\ cli_pc' = "prompt"
          /\ cli_out' = << <<"Runner initialized successfully.">>,
                           <<"AuDHD RAG Agent CLI. Type 'exit' to quit.">> >>
       \/ /\ cli_pc' = "initfailed"
          /\ cli_out' = << <<"Error initializing ADK Runner: ", "raise">> >>
    /\ UNCHANGED <<user_input, queries, run_outcome, env, qVars, ingVars>>

\* main.py:35  input() raises (EOFError at end of input): outside every try
InputRaises ==
    /\ cli_pc = "prompt"
    /\ cli_pc' = "crashed"
    /\ cli_out' = << <<"Traceback: EOFError">> >>
    /\ UNCHANGED <<user_input, queries, run_outcome, env, qVars, ingVars>>

\* main.py:35-38
TurnExit(line) ==
    /\ cli_pc = "prompt"
    /\ IsExit(line)
    /\ user_input' = line
    /\ cli_out' = << <<"Exiting CLI. Goodbye!">> >>
    /\ cli_pc' = "exited"
    /\ UNCHANGED <<queries, run_outcome, env, qVars, ingVars>>

\* main.py:35-41
TurnBlank(line) ==
    /\ cli_pc = "prompt"
    /\ ~IsExit(line)
    /\ IsBlank(line)
    /\ user_input' = line
    /\ cli_out' = <<>>
    /\ cli_pc' = "prompt"
    /\ UNCHANGED <<queries, run_outcome, env, qVars, ingVars>>

\* main.py:35-57
TurnQuery(line, rd) ==
    /\ cli_pc = "prompt"
    /\ ~IsExit(line)
    /\ ~IsBlank(line)
    /\ Len(queries) < MaxCalls
    /\ user_input' = line
    /\ queries' = Append(queries, line)
    /\ run_outcome' = rd
    /\ cli_out' = TurnOutput(rd)
    /\ cli_pc' = "prompt"
    /\ UNCHANGED <<env, qVars, ingVars>>

CliNext ==
    \/ InitRunner
    \/ InputRaises
    \/ \E line \in Lines : TurnExit(line)
    \/ \E line \in Lines : TurnBlank(line)
    \/ \E line \in Lines, rd \in RunOutcomes : TurnQuery(line, rd)

SpecCli == CliInit /\ [][CliNext]_vars

(***************************************************************************)
(* Ingestion: shared pieces                                                *)
(***************************************************************************)
\* What a knowledge file can be: missing, unreadable (the loader raises),
\* loaded as no documents, or loaded and split into `chunks` chunks.
Sources ==
    {[kind |-> k, chunks |-> 0] : k \in {"missing", "unreadable", "nodocs"}}
        \cup {[kind |-> "ok", chunks |-> n] : n \in 0..MaxChunks}

echo(r, msgs) == out' = [out EXCEPT ![r] = @ \o msgs]

call(r, name) == net' = [net EXCEPT ![r] = Append(@, name)]

goto(r, label) == pc' = [pc EXCEPT ![r] = label]

\* No run is between its first and its last statement
NoneActive == \A r \in Runs : pc[r] \in {"idle", "done", "crashed"}

\* Mutant: every chunk is written under an id derived from its position alone
NewRecords_PositionIds(r, n) == {<<0, i>> : i \in 1..n}

\* Mutant: the last chunk is dropped
NewRecords_DropLast(r, n) == {<<r, i>> : i \in 1..(n - 1)}

\* from_documents gives each of the n chunks a record of its own under a
\* fresh id (ingest.py:50, ingest_cloud.py:116-121)
NewRecords(r, n) == {<<r, i>> : i \in 1..n}

\* Mutant: an empty list of chunks is not noticed
no_texts_Ignored(n) == FALSE

\* ingest.py:41, ingest_cloud.py:107  `if not texts`
no_texts(n) == n = 0

\* The runs start one after the other, in the order of their numbers
Start(r, v) ==
    /\ pc[r] = "idle"
    /\ \A q \in Runs : q < r => pc[q] # "idle"
    /\ variant' = [variant EXCEPT ![r] = v]
    /\ IF v = "remote"
       THEN goto(r, "validate")
                /\ echo(r, <<"Starting document ingestion process for Pinecone...">>)
       ELSE goto(r, "load")
                /\ echo(r, <<"Starting document ingestion process...">>)
    /\ UNCHANGED <<cliVars, qVars, env, files, storeVars,
                   existing_indexes, texts, vector_store, net, ret>>

\* One script at a time: a run starts when no other run is under way
StartAlone(r, v) == NoneActive /\ Start(r, v)

(***************************************************************************)
(* ingest_documents_to_pinecone (ingest_cloud.py)                          *)
(***************************************************************************)
\* Mutant: PINECONE_ENVIRONMENT, which no call is given, is not required
all_set_NoEnvironment(e) ==
    /\ ~Falsy(e["OPENAI_API_KEY"])
    /\ ~Falsy(e["PINECONE_API_KEY"])
    /\ ~Falsy(e["PINECONE_INDEX_NAME"])

\* ingest_cloud.py:36
all_set(e) ==
    /\ ~Falsy(e["OPENAI_API_KEY"])
    /\ ~Falsy(e["PINECONE_API_KEY"])
    /\ ~Falsy(e["PINECONE_ENVIRONMENT"])
    /\ ~Falsy(e["PINECONE_INDEX_NAME"])

\* ingest_cloud.py:37-41  the lines printed for the missing variables
missing_lines(e) ==
    <<"Error: Missing one or more required environment variables:">>
    \o (IF Falsy(e["OPENAI_API_KEY"]) THEN <<"- OPENAI_API_KEY">> ELSE <<>>)
    \o (IF Falsy(e["PINECONE_API_KEY"]) THEN <<"- PINECONE_API_KEY">> ELSE <<>>)
    \o (IF Falsy(e["PINECONE_ENVIRONMENT"]) THEN <<"- PINECONE_ENVIRONMENT">> ELSE <<>>)
    \o (IF Falsy(e["PINECONE_INDEX_NAME"]) THEN <<"- PINECONE_INDEX_NAME">> ELSE <<>>)

\* ingest_cloud.py:28-42
RValidate(r) ==
    /\ pc[r] = "validate"
    /\ IF all_set(env)
       THEN goto(r, "client") /\ UNCHANGED out
       ELSE goto(r, "done") /\ echo(r, missing_lines(env))
    /\ UNCHANGED <<cliVars, qVars, env, files, storeVars,
                   variant, existing_indexes, texts, vector_store, net, ret>>

\* ingest_cloud.py:44-49  PineconeClient(...) returns or raises
RInitClient(r) ==
    /\ pc[r] = "client"
    /\ call(r, "PineconeClient")
    /\ \/ goto(r, "list") /\ echo(r, <<"Initializing Pinecone client...">>)
       \/ goto(r, "done")
            /\ echo(r, <<"Initializing Pinecone client...",
                         "Error initializing Pinecone client">>)
    /\ UNCHANGED <<cliVars, qVars, env, files, storeVars,
                   variant, existing_indexes, texts, vector_store, ret>>

\* The names list_indexes() gives
index_names(ixs) == [i \in 1..Len(ixs) |-> ixs[i].name]

\* ingest_cloud.py:52-53  pc.list_indexes() returns, or raises outside any try
RListIndexes(r) ==
    /\ pc[r] = "list"
    /\ call(r, "list_indexes")
    /\ echo(r, <<"Checking for Pinecone index...">>)
    /\ \/ /\ existing_indexes' = [existing_indexes EXCEPT ![r] = index_names(indexes)]
          /\ goto(r, "create")
       \/ /\ goto(r, "crashed")
          /\ UNCHANGED existing_indexes
    /\ UNCHANGED <<cliVars, qVars, env, files, storeVars,
                   variant, texts, vector_store, ret>>

\* The service holds an index of this name
holds_name(ixs, name) == \E i \in DOMAIN ixs : ixs[i].name = name

\* Mutant: the existence check always finds the index absent
absent_Always(name, names) == TRUE

\* ingest_cloud.py:54  `pinecone_index_name not in existing_indexes`
absent(name, names) == \A i \in DOMAIN names : names[i] # name

\* Mutant: the except branch has no return and falls through
after_create_error_FallThrough == "embeddings"

\* ingest_cloud.py:70-75  the except branch of create_index ends in `return`
after_create_error == "done"

\* ingest_cloud.py:54-77  create_index(...) creates the index or raises; the
\* service refuses a name it already holds
RCreateIndex(r) ==
    /\ pc[r] = "create"
    /\ IF absent(IndexName, existing_indexes[r])
       THEN /\ call(r, "create_index")
            /\ \/ /\ ~holds_name(indexes, IndexName)
                  /\ indexes' = Append(indexes,
                                       [name |-> IndexName,
                                        dimension |-> OPENAI_EMBEDDING_DIMENSION,
                                        metric |-> "cosine"])
                  /\ goto(r, "embeddings")
                  /\ echo(r, <<"Index not found. Creating new index...",
                               "Pinecone index created successfully.">>)
               \/ /\ UNCHANGED indexes
                  /\ goto(r, after_create_error)
                  /\ echo(r, <<"Index not found. Creating new index...",
                               "Error creating Pinecone index">>)
       ELSE /\ UNCHANGED <<indexes, net>>
            /\ goto(r, "embeddings")
            /\ echo(r, <<"Pinecone index already exists.">>)
    /\ UNCHANGED <<cliVars, qVars, env, files, records, faiss_index,
                   variant, existing_indexes, texts, vector_store, ret>>

\* ingest_cloud.py:79-85  OpenAIEmbeddings(...) returns or raises
RInitEmbeddings(r) ==
    /\ pc[r] = "embeddings"
    /\ variant[r] = "remote"
    /\ call(r, "OpenAIEmbeddings")
    /\ \/ goto(r, "load") /\ echo(r, <<"Initializing OpenAI embeddings model...">>)
       \/ goto(r, "done")
            /\ echo(r, <<"Initializing OpenAI embeddings model...",
                         "Error initializing OpenAIEmbeddings">>)
    /\ UNCHANGED <<cliVars, qVars, env, files, storeVars,
                   variant, existing_indexes, texts, vector_store, ret>>

\* ingest_cloud.py:87-101
RLoad(r) ==
    /\ pc[r] = "load"
    /\ variant[r] = "remote"
    /\ LET f == files[KNOWLEDGE_FILE_PATH] IN
       CASE f.kind = "missing" ->
                goto(r, "done")
                    /\ echo(r, <<"Loading documents...",
                                 "Error: Knowledge file not found.">>)
         [] f.kind = "unreadable" ->
                goto(r, "done")
                    /\ echo(r, <<"Loading documents...", "Error loading documents">>)
         [] f.kind = "nodocs" ->
                goto(r, "done")
                    /\ echo(r, <<"Loading documents...",
                                 "No documents found in the knowledge file.">>)
         [] OTHER ->
                goto(r, "split") /\ echo(r, <<"Loading documents...">>)
    /\ UNCHANGED <<cliVars, qVars, env, files, storeVars,
                   variant, existing_indexes, texts, vector_store, net, ret>>

\* ingest_cloud.py:103-111
RSplit(r) ==
    /\ pc[r] = "split"
    /\ variant[r] = "remote"
    /\ LET n == files[KNOWLEDGE_FILE_PATH].chunks IN
       /\ texts' = [texts EXCEPT ![r] = n]
       /\ IF no_texts(n)
          THEN goto(r, "done")
                   /\ echo(r, <<"Splitting documents into chunks...",
                                "Text splitting resulted in no chunks.">>)
          ELSE goto(r, "upsert")
                   /\ echo(r, <<"Splitting documents into chunks...",
                                "Found text chunks to embed and upsert.">>)
    /\ UNCHANGED <<cliVars, qVars, env, files, storeVars,
                   variant, existing_indexes, vector_store, net, ret>>

\* ingest_cloud.py:113-125  PineconeVectorStore.from_documents(...) embeds and
\* upserts every chunk, or raises after having upserted only some of them
RUpsert(r) ==
    /\ pc[r] = "upsert"
    /\ call(r, "PineconeVectorStore.from_documents")
    /\ \/ /\ records' = records \cup NewRecords(r, texts[r])
          /\ echo(r, <<"Documents successfully ingested into Pinecone.">>)
       \/ \E k \in 0..(texts[r] - 1) :
            /\ records' = records \cup {<<r, i>> : i \in 1..k}
            /\ echo(r, <<"Error during embedding generation or upserting to Pinecone">>)
    /\ goto(r, "done")
    /\ UNCHANGED <<cliVars, qVars, env, files, indexes, faiss_index,
                   variant, existing_indexes, texts, vector_store, ret>>

RemoteStep(r) ==
    \/ RValidate(r)
    \/ RInitClient(r)
    \/ RListIndexes(r)
    \/ RCreateIndex(r)
    \/ RInitEmbeddings(r)
    \/ RLoad(r)
    \/ RSplit(r)
    \/ RUpsert(r)

(***************************************************************************)
(* ingest_documents (ingest.py)                                            *)
(***************************************************************************)
\* ingest.py:21-32  TextLoader.load() is outside any try
LLoad(r) ==
    /\ pc[r] = "load"
    /\ variant[r] = "local"
    /\ LET f == files[KNOWLEDGE_FILE] IN
       CASE f.kind = "missing" ->
                goto(r, "done") /\ echo(r, <<"Error: Knowledge file not found.">>)
         [] f.kind = "unreadable" ->
                goto(r, "crashed") /\ echo(r, <<"Loading documents...">>)
         [] f.kind = "nodocs" ->
                goto(r, "done")
                    /\ echo(r, <<"Loading documents...",
                                 "No documents found in the knowledge file.">>)
         [] OTHER ->
                goto(r, "split") /\ echo(r, <<"Loading documents...">>)
    /\ UNCHANGED <<cliVars, qVars, env, files, storeVars,
                   variant, existing_indexes, texts, vector_store, net, ret>>

\* ingest.py:34-43
LSplit(r) ==
    /\ pc[r] = "split"
    /\ variant[r] = "local"
    /\ LET n == files[KNOWLEDGE_FILE].chunks IN
       /\ texts' = [texts EXCEPT ![r] = n]
       /\ IF no_texts(n)
          THEN goto(r, "done")
                   /\ echo(r, <<"Splitting text into chunks...",
                                "Text splitting resulted in no chunks.">>)
          ELSE goto(r, "embeddings")
                   /\ echo(r, <<"Splitting text into chunks...">>)
    /\ UNCHANGED <<cliVars, qVars, env, files, storeVars,
                   variant, existing_indexes, vector_store, net, ret>>

\* ingest.py:45-46  HuggingFaceEmbeddings(...) returns, or raises outside any try
LInitEmbeddings(r) ==
    /\ pc[r] = "embeddings"
    /\ variant[r] = "local"
    /\ call(r, "HuggingFaceEmbeddings")
    /\ echo(r, <<"Generating embeddings...">>)
    /\ \/ goto(r, "build")
       \/ goto(r, "crashed")
    /\ UNCHANGED <<cliVars, qVars, env, files, storeVars,
                   variant, existing_indexes, texts, vector_store, ret>>

\* ingest.py:48-53  FAISS.from_documents(texts, embeddings) builds a new store
\* from the chunks, or raises
LBuild(r) ==
    /\ pc[r] = "build"
    /\ call(r, "FAISS.from_documents")
    /\ \/ /\ vector_store' = [vector_store EXCEPT ![r] = NewRecords(r, texts[r])]
          /\ goto(r, "save")
          /\ echo(r, <<"Creating FAISS vector store...">>)
       \/ /\ UNCHANGED vector_store
          /\ goto(r, "done")
          /\ echo(r, <<"Creating FAISS vector store...",
                       "Error creating FAISS vector store">>)
    /\ UNCHANGED <<cliVars, qVars, env, files, storeVars,
                   variant, existing_indexes, texts, ret>>

\* ingest.py:57  vector_store.save_local(FAISS_INDEX_FILE) writes the files of
\* this run's store over those of the directory
saved(old, store) == [exists |-> TRUE, records |-> store]

\* ingest.py:55-60  save_local(...) returns or raises; a failed save is taken
\* to leave the directory as it was
LSave(r) ==
    /\ pc[r] = "save"
    /\ call(r, "save_local")
    /\ \/ /\ faiss_index' = saved(faiss_index, vector_store[r])
          /\ echo(r, <<"Saving FAISS index...",
                       "Vector store created and saved successfully.">>)
       \/ /\ UNCHANGED faiss_index
          /\ echo(r, <<"Saving FAISS index...", "Error saving FAISS index">>)
    /\ goto(r, "done")
    /\ UNCHANGED <<cliVars, qVars, env, files, indexes, records,
                   variant, existing_indexes, texts, vector_store, ret>>

LocalStep(r) ==
    \/ LLoad(r)
    \/ LSplit(r)
    \/ LInitEmbeddings(r)
    \/ LBuild(r)
    \/ LSave(r)

(***************************************************************************)
(* Specifications of ingestion                                             *)
(***************************************************************************)
AllSetEnv == [v \in EnvNames |-> "set"]

\* Both scripts, run one after the other, against any pair of knowledge files
IngestInit ==
    /\ CliIdle
    /\ QIdle
    /\ env = AllSetEnv
    /\ files \in [{KNOWLEDGE_FILE, KNOWLEDGE_FILE_PATH} -> Sources]
    /\ indexes = <<OtherIndex>>
    /\ records = {}
    /\ faiss_index = [exists |-> FALSE, records |-> {}]
    /\ pc = [r \in Runs |-> "idle"]
    /\ variant = [r \in Runs |-> "none"]
    /\ existing_indexes = [r \in Runs |-> <<>>]
    /\ texts = [r \in Runs |-> 0]
    /\ vector_store = [r \in Runs |-> {}]
    /\ net = [r \in Runs |-> <<>>]
    /\ out = [r \in Runs |-> <<>>]
    /\ ret = [r \in Runs |-> <<>>]

IngestNext ==
    \/ \E r \in Runs, v \in {"local", "remote"} : StartAlone(r, v)
    \/ \E r \in Runs : RemoteStep(r)
    \/ \E r \in Runs : LocalStep(r)

SpecIngest == IngestInit /\ [][IngestNext]_vars

\* The remote script under every environment, its knowledge file in place
ConfigInit ==
    /\ CliIdle
    /\ QIdle
    /\ IngestIdle
    /\ env \in Envs

ConfigNext ==
    \/ \E r \in Runs : StartAlone(r, "remote")
    \/ \E r \in Runs : RemoteStep(r)

SpecConfig == ConfigInit /\ [][ConfigNext]_vars

\* Remote runs started by separate processes against one Pinecone project:
\* a run may start while another is under way, and their steps interleave
RaceInit ==
    /\ CliIdle
    /\ QIdle
    /\ IngestIdle
    /\ env = AllSetEnv

RaceNext ==
    \/ \E r \in Runs : Start(r, "remote")
    \/ \E r \in Runs : RemoteStep(r)

SpecRace == RaceInit /\ [][RaceNext]_vars

(***************************************************************************)
(* Claims about run_cli                                                    *)
(***************************************************************************)
Farewell == << <<"Exiting CLI. Goodbye!">> >>

\* C1: in the interactive loop no failed turn ends the loop; the loop ends
\* only on the input `exit`: whenever run_cli has left the loop, it left it
\* through the exit branch, on a line that reads `exit`.
C1_LoopEndsOnlyOnExit ==
    cli_pc \in {"exited", "crashed"} =>
        /\ cli_pc = "exited"
        /\ lower(user_input) = exit

\* C5: a line that reads `exit` in any letter case ends the loop, the
\* farewell is what was printed, and the line was never handed to the agent.
C5_ExitAnyCase ==
    lower(user_input) = exit =>
        /\ cli_pc = "exited"
        /\ cli_out = Farewell
        /\ \A i \in DOMAIN queries : queries[i] # user_input

C5_Witness ==
    /\ cli_pc = "exited"
    /\ user_input = <<"E", "x", "I", "t">>
    /\ cli_out = Farewell
    /\ queries # <<>>

\* C6: a step of the loop that reads a blank line (empty or whitespace
\* only) hands nothing to the agent, prints nothing and is back at the
\* prompt.
C6_BlankIgnored ==
    [][ (cli_pc = "prompt" /\ cli_pc' # "crashed" /\ strip(user_input') = <<>>)
            => /\ queries' = queries
               /\ cli_out' = <<>>
               /\ cli_pc' = "prompt" ]_vars

C6_Witness ==
    /\ cli_pc = "prompt"
    /\ user_input = <<" ", "\t">>
    /\ cli_out = <<>>
    /\ Len(queries) = 1

(***************************************************************************)
(* Claims about query_knowledge_base                                       *)
(***************************************************************************)
IsErrorOutcome(res) ==
    /\ res.kind = "return"
    /\ DOMAIN res.value = {"status", "message", "retrieved_context"}
    /\ res.value.status = "error"
    /\ res.value.message # EmptyStr
    /\ res.value.retrieved_context = EmptyStr

IsEmptyOutcome(res) ==
    /\ res.kind = "return"
    /\ res.value.status = "success"
    /\ res.value.retrieved_context = EmptyStr

\* C2: query_knowledge_base never raises to its caller: every step that
\* ends the call ends it by returning, and when the call ends at the
\* configuration check, the embeddings client, the index connection or the
\* similarity search (a failure there), what it returns has status `error`,
\* a message and an empty retrieved_context.
C2_NeverRaises ==
    [][ (q_pc # q_pc' /\ q_pc' \notin {"embeddings", "connect", "search", "format"})
            => /\ q_pc' = "returned"
               /\ q_pc # "format" => IsErrorOutcome(q_result') ]_vars

C2_Witness ==
    /\ q_pc = "returned"
    /\ q_net = <<"OpenAIEmbeddings", "from_existing_index", "similarity_search">>
    /\ IsErrorOutcome(q_result)
    /\ q_result.value.message[2] = "ConnectionError"

\* C3: when the similarity search returned and gave no documents, the call
\* returns the Empty outcome: status `success` (not `error`), with
\* retrieved_context = "", and it does not raise.
C3_EmptyIsNotError ==
    [][ (q_pc = "format" /\ q_docs = <<>>)
            => /\ q_pc' = "returned"
               /\ IsEmptyOutcome(q_result')
               /\ ~IsErrorOutcome(q_result') ]_vars

C3_Witness ==
    /\ q_pc = "returned"
    /\ q_docs = <<>>
    /\ IsEmptyOutcome(q_result)
    /\ q_net = <<"OpenAIEmbeddings", "from_existing_index", "similarity_search">>

(***************************************************************************)
(* Claims about ingestion                                                  *)
(***************************************************************************)
Has(seq, x) == \E i \in DOMAIN seq : seq[i] = x

Finished(r) == pc[r] \in {"done", "crashed"}

RemoteSuccess(r) ==
    /\ variant[r] = "remote"
    /\ pc[r] = "done"
    /\ Has(out[r], "Documents successfully ingested into Pinecone.")

LocalSuccess(r) ==
    /\ variant[r] = "local"
    /\ pc[r] = "done"
    /\ Has(out[r], "Vector store created and saved successfully.")

\* The records run r put into the Pinecone index
WrittenBy(r) == {x \in records : x[1] = r}

MissingLine(v) ==
    CASE v = "OPENAI_API_KEY" -> "- OPENAI_API_KEY"
      [] v = "PINECONE_API_KEY" -> "- PINECONE_API_KEY"
      [] v = "PINECONE_ENVIRONMENT" -> "- PINECONE_ENVIRONMENT"
      [] v = "PINECONE_INDEX_NAME" -> "- PINECONE_INDEX_NAME"

\* C4: when any of the four required variables is missing (unset or
\* empty), a run of the remote ingest that has passed its check has ended,
\* has printed the configuration error with a line for exactly the missing
\* variables, and has made no library call: no client, no index listing or
\* creation, no embedding, no upsert; the stores are untouched.
C4_MissingConfigAborts ==
    \A r \in Runs :
        (pc[r] \notin {"idle", "validate"} /\ \E v \in EnvNames : Falsy(env[v]))
            => /\ pc[r] = "done"
               /\ net[r] = <<>>
               /\ Has(out[r], "Error: Missing one or more required environment variables:")
               /\ \A v \in EnvNames : Falsy(env[v]) <=> Has(out[r], MissingLine(v))
               /\ indexes = <<OtherIndex>>
               /\ records = {}

C4_Witness ==
    /\ env = [AllSetEnv EXCEPT !["OPENAI_API_KEY"] = "None", !["PINECONE_INDEX_NAME"] = ""]
    /\ pc[1] = "done"
    /\ out[1] = <<"Starting document ingestion process for Pinecone...",
                  "Error: Missing one or more required environment variables:",
                  "- OPENAI_API_KEY", "- PINECONE_INDEX_NAME">>
    /\ net[1] = <<>>

\* The run got past the existence check and creation of ingest_cloud.py:51-77
PastCreate(r) ==
    /\ variant[r] = "remote"
    /\ \/ Has(out[r], "Pinecone index created successfully.")
       \/ Has(out[r], "Pinecone index already exists.")

NamedIndexes == {i \in DOMAIN indexes : indexes[i].name = IndexName}

\* C7: store creation is create-if-absent and idempotent: once a run has
\* got past the existence check and creation, the project holds exactly one
\* index of the given name, of dimension 1536 and cosine metric, and a run
\* made after it with the same parameters does not call create_index.
C7_CreateIdempotent ==
    /\ \A r \in Runs :
         PastCreate(r) =>
            /\ Cardinality(NamedIndexes) = 1
            /\ \A i \in NamedIndexes :
                 /\ indexes[i].dimension = OPENAI_EMBEDDING_DIMENSION
                 /\ indexes[i].metric = "cosine"
    /\ \A r1, r2 \in Runs :
         (r1 < r2 /\ PastCreate(r1) /\ variant[r2] = "remote")
            => ~Has(net[r2], "create_index")

C7_Witness ==
    /\ Has(out[1], "Pinecone index created successfully.")
    /\ Has(out[2], "Pinecone index already exists.")
    /\ Has(net[1], "create_index")
    /\ Finished(2)
    /\ Cardinality(NamedIndexes) = 1

\* The last local run that saved its store
LastSaved(r) == LocalSuccess(r) /\ \A q \in Runs : (q > r) => ~LocalSuccess(q)

\* C8 as stated: on success ingest returns the number of chunks written.
C8_ReturnsChunkCount ==
    \A r \in Runs : (RemoteSuccess(r) \/ LocalSuccess(r)) => ret[r] = <<texts[r]>>

\* C8 as amended: on success ingest returns nothing (None) and has printed
\* its success message; the store then contains one record per chunk the
\* source splits into: the Pinecone index has that many records of the run,
\* and the FAISS directory holds exactly that many, all of the run that
\* saved it last.
C8_OneRecordPerChunk ==
    \A r \in Runs :
        /\ RemoteSuccess(r) =>
            /\ ret[r] = <<>>
            /\ texts[r] = files[KNOWLEDGE_FILE_PATH].chunks
            /\ Cardinality(WrittenBy(r)) = files[KNOWLEDGE_FILE_PATH].chunks
        /\ LocalSuccess(r) =>
            /\ ret[r] = <<>>
            /\ texts[r] = files[KNOWLEDGE_FILE].chunks
            /\ faiss_index.exists
        /\ LastSaved(r) =>
            /\ Cardinality(faiss_index.records) = files[KNOWLEDGE_FILE].chunks
            /\ \A x \in faiss_index.records : x[1] = r

C8_Witness ==
    /\ RemoteSuccess(1)
    /\ LocalSuccess(2)
    /\ Cardinality(WrittenBy(1)) = 2
    /\ Cardinality(faiss_index.records) = 2

\* Every run made so far has ended in success
AllSucceeded ==
    \A r \in Runs : pc[r] # "idle" => (RemoteSuccess(r) \/ LocalSuccess(r))

SuccessfulRemote == {r \in Runs : RemoteSuccess(r)}

SuccessfulLocal == {r \in Runs : LocalSuccess(r)}

BadSource(f) == f.kind \in {"missing", "nodocs"} \/ (f.kind = "ok" /\ f.chunks = 0)

SourceMessage(f) ==
    CASE f.kind = "missing" -> "Error: Knowledge file not found."
      [] f.kind = "nodocs" -> "No documents found in the knowledge file."
      [] OTHER -> "Text splitting resulted in no chunks."

\* C10: with the source file missing, or yielding no documents or no
\* chunks, a finished run has not succeeded, never reached the
\* embedding/upsert step and wrote no records; a run that got as far as the
\* source ended by returning after reporting which of the three it met.
C10_BadSourceWritesNothing ==
    \A r \in Runs :
        /\ (Finished(r) /\ variant[r] = "remote" /\ BadSource(files[KNOWLEDGE_FILE_PATH]))
            => /\ ~RemoteSuccess(r)
               /\ Has(out[r], "Loading documents...")
                    => /\ pc[r] = "done"
                       /\ Has(out[r], SourceMessage(files[KNOWLEDGE_FILE_PATH]))
               /\ ~Has(net[r], "PineconeVectorStore.from_documents")
               /\ WrittenBy(r) = {}
        /\ (Finished(r) /\ variant[r] = "local" /\ BadSource(files[KNOWLEDGE_FILE]))
            => /\ pc[r] = "done"
               /\ ~LocalSuccess(r)
               /\ Has(out[r], SourceMessage(files[KNOWLEDGE_FILE]))
               /\ net[r] = <<>>
               /\ vector_store[r] = {}
               /\ faiss_index = [exists |-> FALSE, records |-> {}]

C10_Witness ==
    /\ variant[1] = "remote"
    /\ Has(net[1], "OpenAIEmbeddings")
    /\ Has(out[1], "Text splitting resulted in no chunks.")
    /\ variant[2] = "local"
    /\ Has(out[2], "Error: Knowledge file not found.")
    /\ Finished(2)
    /\ records = {}

CreateFailed(r) == Has(out[r], "Error creating Pinecone index")

\* C11: the existence check and the creation are two calls, so interleaved
\* runs can both find the name absent and both call create_index (the
\* witness); whenever a run's creation has failed, that run has ended by
\* returning after reporting the error, has made no call past create_index
\* and has upserted nothing, and the project never holds more than one
\* index of that name.
C11_RaceLoserAborts ==
    /\ Cardinality(NamedIndexes) <= 1
    /\ \A r \in Runs :
         CreateFailed(r) =>
            /\ pc[r] = "done"
            /\ net[r] = <<"PineconeClient", "list_indexes", "create_index">>
            /\ WrittenBy(r) = {}

C11_Witness ==
    /\ absent(IndexName, existing_indexes[1])
    /\ absent(IndexName, existing_indexes[2])
    /\ Has(net[1], "create_index")
    /\ Has(net[2], "create_index")
    /\ Has(out[1], "Pinecone index created successfully.")
    /\ CreateFailed(2)
    /\ pc[2] = "done"
    /\ RemoteSuccess(1)
    /\ WrittenBy(2) = {}
    /\ Cardinality(NamedIndexes) = 1

\* A step of the loop that read a line which is neither `exit` nor blank
ReadsQuery ==
    /\ cli_pc = "prompt"
    /\ cli_pc' # "crashed"
    /\ lower(user_input') # exit
    /\ strip(user_input') # <<>>

\* C12 as stated: every line that is neither `exit` nor blank is handed to
\* the agent exactly once and the agent's answer, or the fallback string,
\* is printed before the loop prompts again.
C12_AnswerOrFallback ==
    [][ ReadsQuery
            => /\ queries' = Append(queries, user_input')
               /\ cli_pc' = "prompt"
               /\ \E a \in Answers \cup {"No response content found."} :
                    cli_out' = << <<"Sending query to agent...">>, <<"Agent: ", a>> >> ]_vars

\* C12 as amended: every line that is neither `exit` nor blank is handed to
\* the agent exactly once, and before the loop prompts again it prints the
\* agent's answer when runner.run returned a dict with a 'response' key, the
\* fallback string when the dict has no such key, and the inline error
\* message when runner.run raised or returned something that is no dict.
C12_AnswerFallbackOrError ==
    [][ ReadsQuery
            => /\ queries' = Append(queries, user_input')
               /\ cli_pc' = "prompt"
               /\ Len(cli_out') = 2
               /\ cli_out'[1] = <<"Sending query to agent...">>
               /\ run_outcome'.kind = "dict"
                    => cli_out'[2] = <<"Agent: ", run_outcome'.response>>
               /\ run_outcome'.kind = "dict_no_response"
                    => cli_out'[2] = <<"Agent: ", "No response content found.">>
               /\ run_outcome'.kind \in {"none", "raise"}
                    => cli_out'[2][1] = "An error occurred while processing your query: "
       ]_vars

C12_Witness ==
    /\ cli_pc = "prompt"
    /\ user_input = <<"E", "X", "I", "T", " ">>
    /\ queries = << <<"H", "i">>, <<"E", "X", "I", "T", " ">> >>
    /\ run_outcome.kind = "dict_no_response"
    /\ cli_out = << <<"Sending query to agent...">>,
                    <<"Agent: ", "No response content found.">> >>

====
